---- MODULE Spec2Model ----
(***************************************************************************)
(* MediTrack backend: the drug-interaction safety engine                   *)
(* (app/services/ai_service.py, app/routes/prescription.py) and the        *)
(* medicine schedule / dose log handlers (app/routes/medicine.py) over the *)
(* mock record store (app/database.py), with the adherence statistics and *)
(* the timing and frequency helpers (app/utils/helpers.py).                *)
(*                                                                         *)
(* Conventions.  A Python dict is a function with a string domain; a       *)
(* missing key is a key outside DOMAIN.  Python None is the string "None". *)
(* Instants are whole hours since day 0 (day = hour \div 24); floats in    *)
(* [0,1] are hundredths.  uuid4() is a fresh integer, counted per table.   *)
(***************************************************************************)
EXTENDS Integers, Sequences, FiniteSets, TLC

VARIABLES
    \* ---- drug-interaction safety engine and its endpoint -----------------
    client,           \* DrugInteractionSafetyEngine.client is configured
    pc,               \* "idle" | "calling" (inside chat.completions.create) | "done"
    call,             \* the arguments of the call in progress
    classifier_calls, \* classifier invocations made by the call in progress
    reply,            \* what the classifier did on its last invocation
    outcome,          \* "none" | "returned" | "raised": how the engine call ended
    verdict,          \* the dict the engine call returned
    response,         \* the body the endpoint answered with
    \* ---- clock ------------------------------------------------------------
    now,              \* the server's local wall clock, hours since day 0
    utc_ahead,        \* hours by which datetime.utcnow() is ahead of it
    \* ---- record store (app/database.py _mock_storage) ---------------------
    prescriptions,    \* list of prescription records
    medicines,        \* list of medicine records
    medicine_logs,    \* list of medicine log records
    next_id,          \* the next fresh uuid4()
    \* ---- last answer of the medicine handlers ----------------------------
    http,             \* "none" | "ok" | "404" | "403": status of the last request
    schedule,         \* the last request's today-schedule answer: who asked, and the body
    stats,            \* the last request's adherence-stats answer: who asked, and the body
    \* ---- utils/helpers.py, called on their own ----------------------------
    timing_call,      \* the last timing_to_hour call: argument and result
    frequency_call    \* the last parse_frequency call: argument and outcome

engine_vars == <<client, pc, call, classifier_calls, reply, outcome, verdict, response>>
store_vars  == <<prescriptions, medicines, medicine_logs, next_id>>
answer_vars == <<http, schedule, stats>>
clock_vars  == <<now, utc_ahead>>
helper_vars == <<timing_call, frequency_call>>
vars == <<engine_vars, clock_vars, store_vars, answer_vars, helper_vars>>

\* ------------------------------------------------------------------ bounds
MaxMeds == 1          \* longest medicine list handed to the engine
MaxTicks == 2         \* days the clock advances
MaxPrescriptions == 1 \* prescriptions ever uploaded
MaxLogs == 1          \* dose logs ever written
MaxDoses == 4         \* dose logs ever written where adherence is computed
MaxCoreLogs == 2      \* dose logs ever written where all the handlers run

\* ----------------------------------------------------------------- helpers
None == "None"

DictGet(d, k, default) == IF k \in DOMAIN d THEN d[k] ELSE default

\* d[k] = v on a Python dict: adds the key or overwrites it
DictSet(d, k, v) == [x \in DOMAIN d \cup {k} |-> IF x = k THEN v ELSE d[x]]

SeqsUpTo(S, n) == UNION {[1..k -> S] : k \in 0..n}

Range(s) == {s[i] : i \in DOMAIN s}

\* ======================================================================
\* Drug-interaction safety engine
\* ======================================================================

SafetyLevels == {"SAFE", "CAUTION", "DANGER", "CRITICAL"}

\* medicine records a caller passes: dicts with or without a "name" key
MedRecords ==
    { [name |-> "Warfarin", dosage |-> "5mg"],
      [dosage |-> "10mg"] }

MedLists == SeqsUpTo(MedRecords, MaxMeds)

\* [med.get('name', '') for med in meds]
MedNames(meds) == [i \in DOMAIN meds |-> DictGet(meds[i], "name", "")]

\* ---- what the classifier can send back --------------------------------
\* A JSON document is tagged with its top-level type; obj is its members
\* when it is an object.
JsonObject(o) == [json |-> "object", obj |-> o]
JsonArray     == [json |-> "array",  obj |-> [x \in {} |-> None]]
JsonNull      == [json |-> "null",   obj |-> [x \in {} |-> None]]
NoJson        == [json |-> "none",   obj |-> [x \in {} |-> None]]

ClassifierAlert ==
    [drug_1 |-> "Aspirin", drug_2 |-> "Warfarin", severity |-> "severe"]

\* a payload of the shape the prompt asks for
WellFormedPayload(level, critical) ==
    [ has_critical_interactions |-> critical,
      safety_level |-> level,
      interaction_alerts |-> IF critical THEN <<ClassifierAlert>> ELSE <<>>,
      safe_combinations |-> <<>>,
      overall_recommendation |-> "classifier recommendation",
      emergency_warning |-> None,
      consult_doctor |-> critical,
      confidence_score |-> 90 ]

WellFormedPayloads ==
    { WellFormedPayload("SAFE", FALSE), WellFormedPayload("CAUTION", FALSE),
      WellFormedPayload("CAUTION", TRUE), WellFormedPayload("DANGER", TRUE),
      WellFormedPayload("CRITICAL", TRUE) }

\* JSON objects that parse but are not of the SafetyAlert shape
MalformedPayloads ==
    { [x \in {} |-> None],
      [WellFormedPayload("CAUTION", FALSE) EXCEPT !.safety_level = "UNKNOWN"],
      [k \in DOMAIN WellFormedPayload("SAFE", FALSE) \ {"safety_level"}
          |-> WellFormedPayload("SAFE", FALSE)[k]] }

\* a well-formed payload that already carries the two metadata keys
StampedPayload ==
    DictSet(DictSet(WellFormedPayload("DANGER", TRUE), "checked_at", -1),
            "total_medications_checked", 99)

IsWellFormed(o) ==
    /\ {"has_critical_interactions", "safety_level", "interaction_alerts",
        "consult_doctor", "confidence_score"} \subseteq DOMAIN o
    /\ o["safety_level"] \in SafetyLevels

JsonDocs ==
    {JsonObject(o) : o \in WellFormedPayloads \cup MalformedPayloads \cup {StampedPayload}}
        \cup {JsonArray, JsonNull}

\* The message text is a sequence of tokens: a markdown fence, white space,
\* prose, or one complete JSON document.
Tok(kind, doc) == [tok |-> kind, doc |-> doc]
FenceJson == Tok("fence_json", NoJson)  \* the text of a json code fence opener
Fence     == Tok("fence", NoJson)       \* a bare three-backtick fence
Ws        == Tok("ws", NoJson)          \* white space
Prose     == Tok("prose", NoJson)

Contents ==
    UNION { { <<Tok("json", j)>>,
              <<Ws, Tok("json", j), Ws>>,
              <<FenceJson, Ws, Tok("json", j), Ws, Fence>>,
              <<Prose, FenceJson, Tok("json", j), Fence, Prose>>,
              <<Fence, Tok("json", j), Fence>>,
              <<Prose, Tok("json", j)>> } : j \in JsonDocs }
        \cup { <<>>, <<Prose>>, <<FenceJson, Prose, Fence>> }

\* what one invocation of chat.completions.create can do
ClassifierReplies ==
    { [kind |-> "raise",        content |-> <<>>],   \* unreachable, timeout, API error
      [kind |-> "no_choices",   content |-> <<>>],   \* response.choices is empty
      [kind |-> "none_content", content |-> <<>>] }  \* message.content is None
        \cup { [kind |-> "content", content |-> c] : c \in Contents }

NoReply == [kind |-> "none", content |-> <<>>]

NoCall == [via |-> "none", demo_mode |-> FALSE, new_meds |-> <<>>, existing_meds |-> <<>>]
NoVerdict == [none |-> TRUE]
NoResponse == [none |-> TRUE]

\* ---- cleaning and parsing the classifier's text -------------------------
RECURSIVE LStrip(_)
LStrip(s) == IF s # <<>> /\ Head(s).tok = "ws" THEN LStrip(Tail(s)) ELSE s

RECURSIVE RStrip(_)
RStrip(s) ==
    IF s # <<>> /\ s[Len(s)].tok = "ws" THEN RStrip(SubSeq(s, 1, Len(s) - 1)) ELSE s

\* str.strip()
Strip(s) == RStrip(LStrip(s))

\* sep in text
Contains(s, seps) == \E i \in DOMAIN s : s[i].tok \in seps

\* index of the first separator, 0 when there is none
First(s, seps) ==
    IF Contains(s, seps)
    THEN CHOOSE i \in DOMAIN s :
            /\ s[i].tok \in seps
            /\ \A j \in 1..(i - 1) : s[j].tok \notin seps
    ELSE 0

\* text.split(sep)[0]
Segment0(s, seps) ==
    IF First(s, seps) = 0 THEN s ELSE SubSeq(s, 1, First(s, seps) - 1)

\* text.split(sep)[1], for a text that holds sep
Segment1(s, seps) == Segment0(SubSeq(s, First(s, seps) + 1, Len(s)), seps)

\* the markdown removal of check_drug_interactions; a json fence opener
\* also holds the bare fence as a substring
StripFences(cleaned) ==
    IF Contains(cleaned, {"fence_json"})
    THEN Strip(Segment0(Segment1(cleaned, {"fence_json"}), {"fence", "fence_json"}))
    ELSE IF Contains(cleaned, {"fence", "fence_json"})
    THEN Strip(Segment0(Segment1(cleaned, {"fence", "fence_json"}), {"fence", "fence_json"}))
    ELSE cleaned

Raised(e) == [outcome |-> "raised", value |-> NoVerdict, error |-> e]
Returned(v) == [outcome |-> "returned", value |-> v, error |-> None]

\* json.loads: one complete document, white space allowed around it
JsonLoads(s) ==
    IF Len(Strip(s)) = 1 /\ Strip(s)[1].tok = "json"
    THEN Returned(Strip(s)[1].doc)
    ELSE Raised("JSONDecodeError")

\* a slip: only the new medicines are counted
StampMetadata_NewOnly(o, new_names, existing_names, t) ==
    DictSet(DictSet(o, "checked_at", t), "total_medications_checked", Len(new_names))

\* safety_alert['checked_at'] = ...; safety_alert['total_medications_checked'] = ...
StampMetadata(o, new_names, existing_names, t) ==
    DictSet(DictSet(o, "checked_at", t),
            "total_medications_checked", Len(new_names) + Len(existing_names))

\* the body of the try block, from the classifier's reply on
TryBody(r, new_names, existing_names, t) ==
    CASE r.kind = "raise"        -> Raised("APIError")
      [] r.kind = "no_choices"   -> Raised("IndexError")
      [] r.kind = "none_content" -> Raised("AttributeError")
      [] OTHER ->
            LET parsed == JsonLoads(StripFences(Strip(r.content))) IN
            IF parsed.outcome = "raised" THEN parsed
            ELSE IF parsed.value.json # "object" THEN Raised("TypeError")
            ELSE Returned(StampMetadata(parsed.value.obj, new_names, existing_names, t))

\* ---- the three fixed verdicts --------------------------------------------
SafeEmptyVerdict(t) ==
    [ has_critical_interactions |-> FALSE,
      safety_level |-> "SAFE",
      interaction_alerts |-> <<>>,
      safe_combinations |-> <<>>,
      overall_recommendation |-> "No medications to check.",
      emergency_warning |-> None,
      consult_doctor |-> FALSE,
      confidence_score |-> 100,
      checked_at |-> t,
      total_medications_checked |-> 0 ]

FailsafeAlert(e) ==
    [drug_1 |-> "New Prescription", drug_2 |-> "Existing Medication",
     severity |-> "unknown", risk_description |-> e]

\* a slip: the handler answers with an all-clear
FailsafeVerdict_AllClear(e, new_names, existing_names, t) ==
    [ has_critical_interactions |-> FALSE,
      safety_level |-> "SAFE",
      interaction_alerts |-> <<>>,
      safe_combinations |-> <<>>,
      overall_recommendation |-> "No interactions found.",
      emergency_warning |-> None,
      consult_doctor |-> FALSE,
      confidence_score |-> 0,
      checked_at |-> t,
      total_medications_checked |-> Len(new_names) + Len(existing_names),
      error |-> e ]

FailsafeVerdict(e, new_names, existing_names, t) ==
    [ has_critical_interactions |-> TRUE,
      safety_level |-> "CAUTION",
      interaction_alerts |-> <<FailsafeAlert(e)>>,
      safe_combinations |-> <<>>,
      overall_recommendation |-> "DO NOT take new medications until doctor confirms safety",
      emergency_warning |-> "SYSTEM ERROR - Manual verification required",
      consult_doctor |-> TRUE,
      confidence_score |-> 0,
      checked_at |-> t,
      total_medications_checked |-> Len(new_names) + Len(existing_names),
      error |-> e ]

DemoAlert == [drug_1 |-> "Aspirin", drug_2 |-> "Warfarin", severity |-> "severe"]

\* get_demo_interaction_alert
DemoVerdict(t) ==
    [ has_critical_interactions |-> TRUE,
      safety_level |-> "DANGER",
      interaction_alerts |-> <<DemoAlert>>,
      safe_combinations |-> <<"Paracetamol (safer alternative for pain)">>,
      overall_recommendation |-> "DO NOT take Aspirin while on Warfarin without doctor approval.",
      emergency_warning |-> "DANGEROUS INTERACTION DETECTED",
      consult_doctor |-> TRUE,
      confidence_score |-> 97,
      checked_at |-> t,
      total_medications_checked |-> 5 ]

\* ---- check_drug_interactions, up to the classifier call ------------------
\* a slip: no client is answered like no medicines, with the all-clear
EngineGuards_NoClientSafe(has_client, new_names, existing_names, t) ==
    IF ~has_client \/ (Len(new_names) = 0 /\ Len(existing_names) = 0)
    THEN [next |-> "done", outcome |-> "returned", value |-> SafeEmptyVerdict(t)]
    ELSE [next |-> "calling", outcome |-> "none", value |-> NoVerdict]

\* the two guards before the prompt is built: where the call goes next
EngineGuards(has_client, new_names, existing_names, t) ==
    IF ~has_client
    THEN [next |-> "done", outcome |-> "returned", value |-> DemoVerdict(t)]
    ELSE IF Len(new_names) = 0 /\ Len(existing_names) = 0
    THEN [next |-> "done", outcome |-> "returned", value |-> SafeEmptyVerdict(t)]
    ELSE [next |-> "calling", outcome |-> "none", value |-> NoVerdict]

\* a slip: the exception is let through to the caller
ExceptHandler_Reraise(e, new_names, existing_names, t) ==
    [next |-> "done", outcome |-> "raised", value |-> NoVerdict]

\* a slip: the handler goes back and asks the classifier again
ExceptHandler_Retry(e, new_names, existing_names, t) ==
    [next |-> "calling", outcome |-> "none", value |-> NoVerdict]

\* except Exception as e: return the cautionary alert
ExceptHandler(e, new_names, existing_names, t) ==
    [next |-> "done", outcome |-> "returned",
     value |-> FailsafeVerdict(e, new_names, existing_names, t)]

\* ---- the endpoint POST /check-drug-interactions --------------------------
\* a slip: only CRITICAL asks for immediate action
RouteResponse_CriticalOnly(out, v) ==
    IF out = "returned"
    THEN [ success |-> TRUE,
           safety_check |-> v,
           requires_immediate_action |->
               DictGet(v, "safety_level", None) \in {"CRITICAL"} ]
    ELSE [ success |-> FALSE,
           safety_check |-> [ has_critical_interactions |-> TRUE,
                              safety_level |-> "CAUTION",
                              consult_doctor |-> TRUE ],
           requires_immediate_action |-> TRUE ]

\* the body the endpoint answers with once the engine call has ended
RouteResponse(out, v) ==
    IF out = "returned"
    THEN [ success |-> TRUE,
           safety_check |-> v,
           requires_immediate_action |->
               DictGet(v, "safety_level", None) \in {"DANGER", "CRITICAL"} ]
    ELSE [ success |-> FALSE,
           safety_check |->
               [ has_critical_interactions |-> TRUE,
                 safety_level |-> "CAUTION",
                 overall_recommendation |->
                     "Unable to check interactions. Please consult your doctor.",
                 consult_doctor |-> TRUE ],
           requires_immediate_action |-> TRUE ]

ResponseFor(via, step) ==
    IF via = "route" /\ step.next = "done"
    THEN RouteResponse(step.outcome, step.value)
    ELSE NoResponse

\* ---- actions --------------------------------------------------------------
\* a direct call of engine.check_drug_interactions(new_meds, existing_meds)
\* (as parse_prescription_with_safety makes it)
EngineCall(new_meds, existing_meds) ==
    /\ pc = "idle"
    /\ LET step == EngineGuards(client, MedNames(new_meds), MedNames(existing_meds), now) IN
        /\ pc' = step.next
        /\ outcome' = step.outcome
        /\ verdict' = step.value
        /\ response' = NoResponse
    /\ call' = [via |-> "engine", demo_mode |-> FALSE,
                new_meds |-> new_meds, existing_meds |-> existing_meds]
    /\ classifier_calls' = 0
    /\ reply' = NoReply
    /\ UNCHANGED <<client, clock_vars, store_vars, answer_vars, helper_vars>>

\* POST /check-drug-interactions with a request body
RouteCall(new_meds, existing_meds, demo_mode) ==
    /\ pc = "idle"
    /\ LET step ==
            IF demo_mode
            THEN [next |-> "done", outcome |-> "returned", value |-> DemoVerdict(now)]
            ELSE EngineGuards(client, MedNames(new_meds), MedNames(existing_meds), now)
       IN
        /\ pc' = step.next
        /\ outcome' = step.outcome
        /\ verdict' = step.value
        /\ response' = ResponseFor("route", step)
    /\ call' = [via |-> "route", demo_mode |-> demo_mode,
                new_meds |-> new_meds, existing_meds |-> existing_meds]
    /\ classifier_calls' = 0
    /\ reply' = NoReply
    /\ UNCHANGED <<client, clock_vars, store_vars, answer_vars, helper_vars>>

\* chat.completions.create returns or raises; the rest of the try block and
\* the except block run
ClassifierResponds(r) ==
    /\ pc = "calling"
    /\ classifier_calls' = classifier_calls + 1
    /\ reply' = r
    /\ LET new_names == MedNames(call.new_meds)
           existing_names == MedNames(call.existing_meds)
           body == TryBody(r, new_names, existing_names, now)
           step == IF body.outcome = "raised"
                   THEN ExceptHandler(body.error, new_names, existing_names, now)
                   ELSE [next |-> "done", outcome |-> "returned", value |-> body.value]
       IN
        /\ pc' = step.next
        /\ outcome' = step.outcome
        /\ verdict' = step.value
        /\ response' = ResponseFor(call.via, step)
    /\ UNCHANGED <<client, call, clock_vars, store_vars, answer_vars, helper_vars>>

\* the caller has its answer; the engine is free for the next call
EngineDone ==
    /\ pc = "done"
    /\ pc' = "idle"
    /\ call' = NoCall
    /\ classifier_calls' = 0
    /\ reply' = NoReply
    /\ outcome' = "none"
    /\ verdict' = NoVerdict
    /\ response' = NoResponse
    /\ UNCHANGED <<client, clock_vars, store_vars, answer_vars, helper_vars>>

\* the wall clock moves on, a day at a time, from 09:00 of day 0
Tick ==
    /\ now + 24 <= 9 + 24 * MaxTicks
    /\ now' = now + 24
    /\ UNCHANGED <<engine_vars, utc_ahead, store_vars, answer_vars, helper_vars>>

NoSchedule == [none |-> TRUE]
NoStats == [none |-> TRUE]
NoHelperCall == [none |-> TRUE]

\* datetime.utcnow(), read off the local clock
UtcNow == now + utc_ahead

\* no helper has been called on its own
InitHelpers ==
    /\ timing_call = NoHelperCall
    /\ frequency_call = NoHelperCall

InitStoreEmpty ==
    /\ prescriptions = <<>>
    /\ medicines = <<>>
    /\ medicine_logs = <<>>
    /\ next_id = [prescriptions |-> 1, medicines |-> 1, medicine_logs |-> 1]
    /\ http = "none"
    /\ schedule = NoSchedule
    /\ stats = NoStats

\* ai_service.client is set once, at import time, from the settings
InitEngine ==
    /\ client \in BOOLEAN
    /\ pc = "idle"
    /\ call = NoCall
    /\ classifier_calls = 0
    /\ reply = NoReply
    /\ outcome = "none"
    /\ verdict = NoVerdict
    /\ response = NoResponse
    /\ now = 9
    /\ utc_ahead = 0
    /\ InitStoreEmpty
    /\ InitHelpers

NextEngine ==
    \/ \E n \in MedLists, e \in MedLists : EngineCall(n, e)
    \/ \E n \in MedLists, e \in MedLists, d \in BOOLEAN : RouteCall(n, e, d)
    \/ \E r \in ClassifierReplies : ClassifierResponds(r)
    \/ EngineDone
    \/ Tick

SpecEngine == InitEngine /\ [][NextEngine]_vars

\* ======================================================================
\* Properties of the drug-interaction safety engine (under SpecEngine)
\* ======================================================================

BothListsEmpty == Len(call.new_meds) = 0 /\ Len(call.existing_meds) = 0

\* the classifier was invoked and raised, or answered nothing that parses
ClassifierFailed ==
    /\ classifier_calls >= 1
    /\ \/ reply.kind \in {"raise", "no_choices", "none_content"}
       \/ /\ reply.kind = "content"
          /\ JsonLoads(StripFences(Strip(reply.content))).outcome = "raised"

\* the classifier was invoked and its text parsed to a JSON object
ClassifierPayloadParsed ==
    /\ classifier_calls >= 1
    /\ reply.kind = "content"
    /\ JsonLoads(StripFences(Strip(reply.content))).outcome = "returned"
    /\ JsonLoads(StripFences(Strip(reply.content))).value.json = "object"

ClassifierPayload == JsonLoads(StripFences(Strip(reply.content))).value.obj

IsFailsafe(v) ==
    /\ DictGet(v, "has_critical_interactions", FALSE) = TRUE
    /\ DictGet(v, "safety_level", None) = "CAUTION"
    /\ Len(DictGet(v, "interaction_alerts", <<>>)) = 1
    /\ DictGet(v, "consult_doctor", FALSE) = TRUE
    /\ DictGet(v, "confidence_score", -1) = 0

IsDemo(v) ==
    /\ DictGet(v, "safety_level", None) = "DANGER"
    /\ DictGet(v, "interaction_alerts", <<>>) = <<DemoAlert>>
    /\ DictGet(v, "confidence_score", -1) = 97
    /\ DictGet(v, "total_medications_checked", -1) = 5

\* C1: when the engine is called with at least one medicine and the
\* classifier call raises, times out or returns text that cannot be parsed,
\* the verdict returned has has_critical_interactions = true, safety_level =
\* CAUTION, exactly one synthetic alert, consult_doctor = true and
\* confidence_score = 0.0.
C1_FailsafeOnClassifierFailure ==
    (pc = "done" /\ ~call.demo_mode /\ ~BothListsEmpty /\ ClassifierFailed)
        => /\ outcome = "returned"
           /\ IsFailsafe(verdict)
           /\ DictGet(verdict, "interaction_alerts", <<>>)
                = <<FailsafeAlert(DictGet(verdict, "error", None))>>

C1_Witness ==
    /\ pc = "done"
    /\ ClassifierFailed
    /\ reply.kind = "content"
    /\ Len(call.new_meds) >= 1
    /\ IsFailsafe(verdict)

C3_EmptyInputsAreSafe ==
    (pc = "done" /\ ~call.demo_mode /\ BothListsEmpty)
        => /\ DictGet(verdict, "safety_level", None) = "SAFE"
           /\ DictGet(verdict, "has_critical_interactions", TRUE) = FALSE
           /\ DictGet(verdict, "interaction_alerts", <<0>>) = <<>>
           /\ DictGet(verdict, "total_medications_checked", -1) = 0
           /\ classifier_calls = 0

\* C4: the fixed demo verdict is produced only when the caller asks for
\* demo mode: check_drug_interactions itself never returns it, and with no
\* client configured and a non-empty medicine list it returns the fail-safe
\* CAUTION verdict.
C4_DemoOnlyOnRequest ==
    (pc = "done" /\ ~call.demo_mode)
        => /\ ~IsDemo(verdict)
           /\ (~client /\ ~BothListsEmpty) => IsFailsafe(verdict)

\* C5: for every pair of input lists and every classifier behaviour, the
\* engine call ends by returning a verdict; no exception reaches the caller.
C5_NeverRaises ==
    /\ outcome # "raised"
    /\ pc = "done" => (outcome = "returned" /\ verdict # NoVerdict)

C5_Witness ==
    /\ pc = "done"
    /\ call.via = "engine"
    /\ reply.kind \in {"raise", "no_choices", "none_content"}
    /\ outcome = "returned"

\* C6: every verdict the engine returns carries a safety_level that is one
\* of SAFE, CAUTION, DANGER, CRITICAL: a reply that parses as JSON but is
\* not of the SafetyAlert shape is replaced by the fail-safe verdict.
C6_SafetyLevelOnScale ==
    (pc = "done" /\ outcome = "returned")
        => /\ DictGet(verdict, "safety_level", None) \in SafetyLevels
           /\ (ClassifierPayloadParsed /\ ~IsWellFormed(ClassifierPayload))
                => IsFailsafe(verdict)

\* C7: when the classifier returns a well-formed payload, the engine
\* returns that payload with every field unchanged, adding only checked_at
\* and total_medications_checked = len(new_meds) + len(existing_meds).
C7_PayloadReturnedAsIs ==
    (pc = "done" /\ ClassifierPayloadParsed /\ IsWellFormed(ClassifierPayload))
        => /\ outcome = "returned"
           /\ DOMAIN verdict
                = DOMAIN ClassifierPayload \cup {"checked_at", "total_medications_checked"}
           /\ \A k \in DOMAIN ClassifierPayload \ {"checked_at", "total_medications_checked"} :
                DictGet(verdict, k, None) = ClassifierPayload[k]
           /\ DictGet(verdict, "total_medications_checked", -1)
                = Len(call.new_meds) + Len(call.existing_meds)
           /\ DictGet(verdict, "checked_at", -1) \in 0..now

C7_Witness ==
    /\ pc = "done"
    /\ ClassifierPayloadParsed
    /\ IsWellFormed(ClassifierPayload)
    /\ DictGet(verdict, "safety_level", None) = "CRITICAL"
    /\ Len(call.new_meds) + Len(call.existing_meds) >= 1

\* C8: within one call the classifier is invoked at most once: after a
\* failed attempt there is no second attempt and the fail-safe verdict is
\* returned directly.
C8_AtMostOneClassifierCall ==
    /\ classifier_calls <= 1
    /\ classifier_calls = 1 => pc = "done"
    /\ (pc = "done" /\ ClassifierFailed) => IsFailsafe(verdict)

C8_Witness ==
    /\ pc = "done"
    /\ classifier_calls = 1
    /\ ClassifierFailed
    /\ reply.kind = "raise"

\* ======================================================================
\* Record store and medicine handlers
\* ======================================================================

Users == {"u1", "u2"}

NoTime == -1      \* a time field that holds None

\* date() of an instant, and the instant date @ hour:00
Day(t) == t \div 24
AtHour(d, hour) == d * 24 + hour

\* str.lower() on the timing tokens in use
Lower(t) ==
    CASE t = "Bedtime" -> "bedtime"
      [] t = "NIGHT"   -> "night"
      [] t = "Morning" -> "morning"
      [] t = "Evening" -> "evening"
      [] t = "AFTER_DINNER" -> "after_dinner"
      [] OTHER         -> t

\* what the prescription parser can hand over for one medicine: a timing
\* list (possibly empty, repeated or mixed-case; null is a missing key) and
\* an optional duration in days
ParsedMedicines ==
    { [name |-> "Aspirin",   timing |-> <<>>,                     duration_days |-> 0],
      [name |-> "Warfarin",  timing |-> <<"night", "morning">>,   duration_days |-> 1],
      [name |-> "Ibuprofen", timing |-> <<"morning", "morning">>, duration_days |-> 0],
      [name |-> "Melatonin", timing |-> <<"Bedtime", "morning">>, duration_days |-> 1],
      [name |-> "Aspirin",                                        duration_days |-> 1] }

\* ---- DatabaseOperations on the mock storage --------------------------------
\* get_by_id: the first record with that id, or None
Exists(table, id) == \E i \in DOMAIN table : table[i].id = id

GetById(table, id) ==
    table[CHOOSE i \in DOMAIN table :
            table[i].id = id /\ \A j \in 1..(i - 1) : table[j].id # id]

\* [item for item in table if item.get(key) == value]
RECURSIVE Filter(_, _, _)
Filter(table, key, value) ==
    IF table = <<>> THEN <<>>
    ELSE IF DictGet(Head(table), key, None) = value
         THEN <<Head(table)>> \o Filter(Tail(table), key, value)
         ELSE Filter(Tail(table), key, value)

\* delete: pop the first record with that id, if there is one
RECURSIVE Delete(_, _)
Delete(table, id) ==
    IF table = <<>> THEN <<>>
    ELSE IF Head(table).id = id THEN Tail(table)
         ELSE <<Head(table)>> \o Delete(Tail(table), id)

\* for record in records: await db.delete(record["id"])
RECURSIVE DeleteAll(_, _)
DeleteAll(table, records) ==
    IF records = <<>> THEN table
    ELSE DeleteAll(Delete(table, Head(records).id), Tail(records))

GetByUserId(user) == Filter(prescriptions, "user_id", user)
GetByPrescriptionId(pid) == Filter(medicines, "prescription_id", pid)
GetByMedicineId(mid) == Filter(medicine_logs, "medicine_id", mid)

\* ---- get_medicines ----------------------------------------------------------
\* the medicines of the user's prescriptions, prescription by prescription
RECURSIVE MedicinesOf(_)
MedicinesOf(rxs) ==
    IF rxs = <<>> THEN <<>>
    ELSE GetByPrescriptionId(Head(rxs).id) \o MedicinesOf(Tail(rxs))

\* a slip: the end date itself is no longer an active day
IsActiveOn_Exclusive(m, today) == "end_date" \notin DOMAIN m \/ m.end_date > today

\* not m.get("end_date") or date(m["end_date"]) >= today
IsActiveOn(m, today) == "end_date" \notin DOMAIN m \/ m.end_date >= today

RECURSIVE ActiveOnly(_, _)
ActiveOnly(ms, today) ==
    IF ms = <<>> THEN <<>>
    ELSE IF IsActiveOn(Head(ms), today)
         THEN <<Head(ms)>> \o ActiveOnly(Tail(ms), today)
         ELSE ActiveOnly(Tail(ms), today)

GetMedicines(active_only, user, today) ==
    IF active_only
    THEN ActiveOnly(MedicinesOf(GetByUserId(user)), today)
    ELSE MedicinesOf(GetByUserId(user))

\* ---- get_today_schedule -----------------------------------------------------
\* the handler's own table of default timing hours
timing_hours ==
    [ morning |-> 8, afternoon |-> 13, evening |-> 18, night |-> 21,
      before_breakfast |-> 7, after_breakfast |-> 9, before_lunch |-> 12,
      after_lunch |-> 14, before_dinner |-> 19, after_dinner |-> 21 ]

\* a slip: medicine.get("timing", ["morning"]), which keeps an empty list
Timings_NoDefault(m) ==
    IF "timing" \in DOMAIN m THEN m.timing ELSE <<"morning">>

\* medicine.get("timing") or ["morning"]
Timings(m) ==
    IF "timing" \in DOMAIN m /\ m.timing # <<>> THEN m.timing ELSE <<"morning">>

\* the logs of the medicine scheduled today and carrying this timing
RECURSIVE TodayLogs(_, _, _)
TodayLogs(logs, today, timing) ==
    IF logs = <<>> THEN <<>>
    ELSE IF /\ Day(Head(logs).scheduled_time) = today
            /\ DictGet(Head(logs), "timing", None) = timing
         THEN <<Head(logs)>> \o TodayLogs(Tail(logs), today, timing)
         ELSE TodayLogs(Tail(logs), today, timing)

\* a slip: an item whose time has passed is overdue whatever its status
ScheduleItem_OverdueIgnoresStatus(m, timing, today, t) ==
    LET hour == DictGet(timing_hours, Lower(timing), 8)
        scheduled_time == AtHour(today, hour)
        today_logs == TodayLogs(GetByMedicineId(m.id), today, timing)
        status == IF today_logs # <<>> THEN today_logs[1].status ELSE None
    IN  [ medicine_id |-> m.id,
          medicine_name |-> m.name,
          scheduled_time |-> scheduled_time,
          timing |-> timing,
          status |-> status,
          is_overdue |-> (scheduled_time < t) ]

\* the body of the inner loop: the schedule item of one medicine and timing
ScheduleItem(m, timing, today, t) ==
    LET hour == DictGet(timing_hours, Lower(timing), 8)
        scheduled_time == AtHour(today, hour)
        today_logs == TodayLogs(GetByMedicineId(m.id), today, timing)
        status == IF today_logs # <<>> THEN today_logs[1].status ELSE None
    IN  [ medicine_id |-> m.id,
          medicine_name |-> m.name,
          scheduled_time |-> scheduled_time,
          timing |-> timing,
          status |-> status,
          is_overdue |-> (scheduled_time < t /\ status = None) ]

\* the two nested loops, in order
RECURSIVE ItemsOfMedicine(_, _, _, _)
ItemsOfMedicine(m, timings, today, t) ==
    IF timings = <<>> THEN <<>>
    ELSE <<ScheduleItem(m, Head(timings), today, t)>>
            \o ItemsOfMedicine(m, Tail(timings), today, t)

RECURSIVE ItemsOf(_, _, _)
ItemsOf(ms, today, t) ==
    IF ms = <<>> THEN <<>>
    ELSE ItemsOfMedicine(Head(ms), Timings(Head(ms)), today, t)
            \o ItemsOf(Tail(ms), today, t)

\* a slip: the items stay in the order the loops produced them
SortByTime_LoopOrder(items) == items

\* schedule.sort(key=lambda x: x.scheduled_time): a stable sort
RECURSIVE InsertByTime(_, _)
InsertByTime(sorted, x) ==
    IF sorted = <<>> THEN <<x>>
    ELSE IF x.scheduled_time < Head(sorted).scheduled_time
         THEN <<x>> \o sorted
         ELSE <<Head(sorted)>> \o InsertByTime(Tail(sorted), x)

RECURSIVE SortByTime(_)
SortByTime(items) ==
    IF items = <<>> THEN <<>>
    ELSE InsertByTime(SortByTime(SubSeq(items, 1, Len(items) - 1)), items[Len(items)])

\* a slip: every logged item counts as completed
RECURSIVE CountStatus_AnyLogged(_, _)
CountStatus_AnyLogged(items, status) ==
    IF items = <<>> THEN 0
    ELSE (IF Head(items).status # None THEN 1 ELSE 0)
            + CountStatus_AnyLogged(Tail(items), status)

RECURSIVE CountStatus(_, _)
CountStatus(items, status) ==
    IF items = <<>> THEN 0
    ELSE (IF Head(items).status = status THEN 1 ELSE 0) + CountStatus(Tail(items), status)

\* a slip: the item list outlives the request and the next one appends to it
TodayScheduleResponse_Accumulating(user, t) ==
    LET today == Day(t)
        earlier == IF schedule # NoSchedule THEN schedule.body.schedule ELSE <<>>
        items == SortByTime(earlier \o ItemsOf(GetMedicines(TRUE, user, today), today, t))
        completed == CountStatus(items, "taken")
    IN  [ date |-> today,
          schedule |-> items,
          total_medicines |-> Len(items),
          completed |-> completed,
          pending |-> Len(items) - completed ]

TodayScheduleResponse(user, t) ==
    LET today == Day(t)
        items == SortByTime(ItemsOf(GetMedicines(TRUE, user, today), today, t))
        completed == CountStatus(items, "taken")
    IN  [ date |-> today,
          schedule |-> items,
          total_medicines |-> Len(items),
          completed |-> completed,
          pending |-> Len(items) - completed ]

\* ---- actions ----------------------------------------------------------------
\* POST /prescriptions/upload: the prescription record, then one medicine
\* record per parsed medicine
MedicineRecord(id, pid, parsed, today) ==
    LET base == [ id |-> id, prescription_id |-> pid, name |-> parsed.name,
                  timing |-> DictGet(parsed, "timing", <<>>) ]
        keyed == IF "timing" \in DOMAIN parsed
                 THEN base
                 ELSE [k \in DOMAIN base \ {"timing"} |-> base[k]]
    IN  IF parsed.duration_days # 0
        THEN DictSet(keyed, "end_date", today + parsed.duration_days)
        ELSE keyed

UploadPrescription(user, parsed) ==
    /\ next_id.prescriptions <= MaxPrescriptions
    /\ prescriptions' = Append(prescriptions,
            [id |-> next_id.prescriptions, user_id |-> user])
    /\ medicines' = Append(medicines,
            MedicineRecord(next_id.medicines, next_id.prescriptions, parsed, Day(now)))
    /\ next_id' = [next_id EXCEPT !.prescriptions = @ + 1, !.medicines = @ + 1]
    /\ http' = "ok"
    /\ schedule' = NoSchedule
    /\ stats' = NoStats
    /\ UNCHANGED <<engine_vars, clock_vars, helper_vars, medicine_logs>>

\* a slip: any signed-in user may act on any medicine that exists
Access_NoOwnerCheck(medicine_id, user) ==
    IF ~Exists(medicines, medicine_id) THEN "404" ELSE "ok"

\* the ownership check shared by the /{medicine_id} handlers
Access(medicine_id, user) ==
    IF ~Exists(medicines, medicine_id) THEN "404"
    ELSE IF \/ ~Exists(prescriptions, GetById(medicines, medicine_id).prescription_id)
            \/ GetById(prescriptions,
                       GetById(medicines, medicine_id).prescription_id).user_id # user
    THEN "403"
    ELSE "ok"

\* the log record mark_medicine_taken writes
TakenLog(id, medicine_id, taken_at, t) ==
    [ id |-> id, medicine_id |-> medicine_id, scheduled_time |-> taken_at,
      taken_at |-> taken_at, status |-> "taken", created_at |-> t ]

\* a slip: the missed log is stamped like a taken one
MissedLog_WithTakenAt(id, medicine_id, t) ==
    [ id |-> id, medicine_id |-> medicine_id, scheduled_time |-> t,
      taken_at |-> t, status |-> "missed", created_at |-> t ]

\* the log record mark_medicine_missed writes
MissedLog(id, medicine_id, t) ==
    [ id |-> id, medicine_id |-> medicine_id, scheduled_time |-> t,
      taken_at |-> NoTime, status |-> "missed", created_at |-> t ]

\* POST /medicines/{medicine_id}/mark-taken, without a taken_at in the body
MarkTaken(medicine_id, user) ==
    /\ http' = Access(medicine_id, user)
    /\ IF Access(medicine_id, user) = "ok"
       THEN /\ medicine_logs' = Append(medicine_logs,
                    TakenLog(next_id.medicine_logs, medicine_id, UtcNow, UtcNow))
            /\ next_id' = [next_id EXCEPT !.medicine_logs = @ + 1]
       ELSE UNCHANGED <<medicine_logs, next_id>>
    /\ schedule' = NoSchedule
    /\ stats' = NoStats
    /\ UNCHANGED <<engine_vars, clock_vars, helper_vars, prescriptions, medicines>>

\* POST /medicines/{medicine_id}/mark-missed
MarkMissed(medicine_id, user) ==
    /\ http' = Access(medicine_id, user)
    /\ IF Access(medicine_id, user) = "ok"
       THEN /\ medicine_logs' = Append(medicine_logs,
                    MissedLog(next_id.medicine_logs, medicine_id, UtcNow))
            /\ next_id' = [next_id EXCEPT !.medicine_logs = @ + 1]
       ELSE UNCHANGED <<medicine_logs, next_id>>
    /\ schedule' = NoSchedule
    /\ stats' = NoStats
    /\ UNCHANGED <<engine_vars, clock_vars, helper_vars, prescriptions, medicines>>

\* a slip: the medicines are formatted in place, in the stored records
GetTodaySchedule_FormatsInPlace(user) ==
    /\ http' = "ok"
    /\ schedule' = [user |-> user, at |-> now, body |-> TodayScheduleResponse(user, now)]
    /\ stats' = NoStats
    /\ medicines' = [i \in DOMAIN medicines |->
            IF Access(medicines[i].id, user) = "ok"
            THEN DictSet(medicines[i], "is_active", TRUE)
            ELSE medicines[i]]
    /\ UNCHANGED <<engine_vars, clock_vars, helper_vars, prescriptions, medicine_logs, next_id>>

\* GET /medicines/schedule/today
GetTodaySchedule(user) ==
    /\ http' = "ok"
    /\ schedule' = [user |-> user, at |-> now, body |-> TodayScheduleResponse(user, now)]
    /\ stats' = NoStats
    /\ UNCHANGED <<engine_vars, clock_vars, helper_vars, store_vars>>

\* item.update(data) on the first record with that id
Update(table, id, data) ==
    [i \in DOMAIN table |->
        IF table[i].id = id /\ \A j \in 1..(i - 1) : table[j].id # id
        THEN [k \in DOMAIN table[i] \cup DOMAIN data |->
                IF k \in DOMAIN data THEN data[k] ELSE table[i][k]]
        ELSE table[i]]

\* PUT /medicines/{medicine_id} with the fields that were set in the body
UpdateMedicine(medicine_id, user, update_dict) ==
    /\ http' = Access(medicine_id, user)
    /\ IF Access(medicine_id, user) = "ok" /\ DOMAIN update_dict # {}
       THEN medicines' = Update(medicines, medicine_id, update_dict)
       ELSE UNCHANGED medicines
    /\ schedule' = NoSchedule
    /\ stats' = NoStats
    /\ UNCHANGED <<engine_vars, clock_vars, helper_vars, prescriptions, medicine_logs, next_id>>

\* DELETE /medicines/{medicine_id}: the medicine's logs, then the medicine
DeleteMedicine(medicine_id, user) ==
    /\ http' = Access(medicine_id, user)
    /\ IF Access(medicine_id, user) = "ok"
       THEN /\ medicine_logs' = DeleteAll(medicine_logs, GetByMedicineId(medicine_id))
            /\ medicines' = Delete(medicines, medicine_id)
       ELSE UNCHANGED <<medicine_logs, medicines>>
    /\ schedule' = NoSchedule
    /\ stats' = NoStats
    /\ UNCHANGED <<engine_vars, clock_vars, helper_vars, prescriptions, next_id>>

\* the checks of delete_prescription
PrescriptionAccess(prescription_id, user) ==
    IF ~Exists(prescriptions, prescription_id) THEN "404"
    ELSE IF GetById(prescriptions, prescription_id).user_id # user THEN "403"
    ELSE "ok"

\* DELETE /prescriptions/{prescription_id}: the prescription's medicines,
\* then the prescription; the medicine_logs table is not touched
DeletePrescription(prescription_id, user) ==
    /\ http' = PrescriptionAccess(prescription_id, user)
    /\ IF PrescriptionAccess(prescription_id, user) = "ok"
       THEN /\ medicines' = DeleteAll(medicines, GetByPrescriptionId(prescription_id))
            /\ prescriptions' = Delete(prescriptions, prescription_id)
       ELSE UNCHANGED <<medicines, prescriptions>>
    /\ schedule' = NoSchedule
    /\ stats' = NoStats
    /\ UNCHANGED <<engine_vars, clock_vars, helper_vars, medicine_logs, next_id>>

MedicineIds == 1..(MaxPrescriptions + 1)
PrescriptionIds == 1..(MaxPrescriptions + 1)

Init ==
    /\ client = FALSE
    /\ pc = "idle"
    /\ call = NoCall
    /\ classifier_calls = 0
    /\ reply = NoReply
    /\ outcome = "none"
    /\ verdict = NoVerdict
    /\ response = NoResponse
    /\ now = 9
    /\ utc_ahead = 0
    /\ InitStoreEmpty
    /\ InitHelpers

Next ==
    \/ \E u \in Users, p \in ParsedMedicines : UploadPrescription(u, p)
    \/ \E m \in MedicineIds, u \in Users :
            next_id.medicine_logs <= MaxLogs /\ MarkTaken(m, u)
    \/ \E m \in MedicineIds, u \in Users :
            next_id.medicine_logs <= MaxLogs /\ MarkMissed(m, u)
    \/ \E u \in Users : GetTodaySchedule(u)
    \/ Tick

Spec == Init /\ [][Next]_vars

\* the handlers that write the store, the two deletes among them
NextStore ==
    \/ \E u \in Users, p \in ParsedMedicines : UploadPrescription(u, p)
    \/ \E m \in MedicineIds, u \in Users :
            next_id.medicine_logs <= MaxLogs /\ MarkTaken(m, u)
    \/ \E m \in MedicineIds, u \in Users :
            next_id.medicine_logs <= MaxLogs /\ MarkMissed(m, u)
    \/ \E m \in MedicineIds, u \in Users : DeleteMedicine(m, u)
    \/ \E p \in PrescriptionIds, u \in Users : DeletePrescription(p, u)
    \/ Tick

SpecStore == Init /\ [][NextStore]_vars

\* ---- get_adherence_stats ----------------------------------------------------
\* the logs of the medicines, collected medicine by medicine
RECURSIVE AllLogsOf(_)
AllLogsOf(ms) ==
    IF ms = <<>> THEN <<>>
    ELSE GetByMedicineId(Head(ms).id) \o AllLogsOf(Tail(ms))

\* a slip: a second log of the same medicine and scheduled time is dropped
RECURSIVE FilterFrom_OncePerDose(_, _)
FilterFrom_OncePerDose(logs, period_start) ==
    IF logs = <<>> THEN <<>>
    ELSE LET l == logs[Len(logs)]
             before == SubSeq(logs, 1, Len(logs) - 1)
         IN  IF /\ Day(l.created_at) >= period_start
                /\ \A k \in DOMAIN before :
                        \/ before[k].medicine_id # l.medicine_id
                        \/ before[k].scheduled_time # l.scheduled_time
             THEN FilterFrom_OncePerDose(before, period_start) \o <<l>>
             ELSE FilterFrom_OncePerDose(before, period_start)

\* [l for l in all_logs if date(l["created_at"]) >= period_start]
RECURSIVE FilterFrom(_, _)
FilterFrom(logs, period_start) ==
    IF logs = <<>> THEN <<>>
    ELSE IF Day(Head(logs).created_at) >= period_start
         THEN <<Head(logs)>> \o FilterFrom(Tail(logs), period_start)
         ELSE FilterFrom(Tail(logs), period_start)

\* round(x, 1) of the float num / den, in tenths; below a denominator of 16
\* no quotient of hundreds lies half-way between two tenths
Round1(num, den) == (20 * num + den) \div (2 * den)

\* a slip: an empty log set counts as no adherence at all
AdherencePercentage_ZeroWhenEmpty(taken_doses, total_doses) ==
    IF total_doses > 0 THEN Round1(taken_doses * 100, total_doses) ELSE 0

\* round((taken / total * 100) if total > 0 else 100.0, 1), in tenths of a
\* percent
AdherencePercentage(taken_doses, total_doses) ==
    IF total_doses > 0 THEN Round1(taken_doses * 100, total_doses) ELSE 1000

\* a slip: the filtered logs are walked in the order they were collected
SortByCreated_CollectedOrder(logs) == logs

RECURSIVE InsertByCreated(_, _)
InsertByCreated(sorted, x) ==
    IF sorted = <<>> THEN <<x>>
    ELSE IF x.created_at < Head(sorted).created_at
         THEN <<x>> \o sorted
         ELSE <<Head(sorted)>> \o InsertByCreated(Tail(sorted), x)

\* sorted(filtered_logs, key=lambda x: x["created_at"]): a stable sort
RECURSIVE SortByCreated(_)
SortByCreated(logs) ==
    IF logs = <<>> THEN <<>>
    ELSE InsertByCreated(SortByCreated(SubSeq(logs, 1, Len(logs) - 1)), logs[Len(logs)])

\* a slip: best_streak is never raised
RECURSIVE StreakWalk_BestNotTracked(_, _, _)
StreakWalk_BestNotTracked(logs, temp_streak, best_streak) ==
    IF logs = <<>> THEN [current_streak |-> temp_streak, best_streak |-> best_streak]
    ELSE IF Head(logs).status = "taken"
         THEN StreakWalk_BestNotTracked(Tail(logs), temp_streak + 1, best_streak)
         ELSE StreakWalk_BestNotTracked(Tail(logs), 0, best_streak)

\* a slip: a dose that was not taken does not end the running streak
RECURSIVE StreakWalk_NoReset(_, _, _)
StreakWalk_NoReset(logs, temp_streak, best_streak) ==
    IF logs = <<>> THEN [current_streak |-> temp_streak, best_streak |-> best_streak]
    ELSE IF Head(logs).status = "taken"
         THEN StreakWalk_NoReset(Tail(logs), temp_streak + 1,
                         IF temp_streak + 1 > best_streak THEN temp_streak + 1 ELSE best_streak)
         ELSE StreakWalk_NoReset(Tail(logs), temp_streak, best_streak)

\* the streak loop: temp_streak and best_streak after the walk
RECURSIVE StreakWalk(_, _, _)
StreakWalk(logs, temp_streak, best_streak) ==
    IF logs = <<>> THEN [current_streak |-> temp_streak, best_streak |-> best_streak]
    ELSE IF Head(logs).status = "taken"
         THEN StreakWalk(Tail(logs), temp_streak + 1,
                         IF temp_streak + 1 > best_streak THEN temp_streak + 1 ELSE best_streak)
         ELSE StreakWalk(Tail(logs), 0, best_streak)

\* the statistics of the collected logs: the window, the counts, the
\* percentage and the streaks
StatsOfLogs(all_logs, days, today) ==
    LET period_start == today - days
        filtered_logs == FilterFrom(all_logs, period_start)
        total_doses == Len(filtered_logs)
        taken_doses == CountStatus(filtered_logs, "taken")
        streaks == StreakWalk(SortByCreated(filtered_logs), 0, 0)
    IN  [ total_doses |-> total_doses,
          taken_doses |-> taken_doses,
          missed_doses |-> CountStatus(filtered_logs, "missed"),
          skipped_doses |-> CountStatus(filtered_logs, "skipped"),
          adherence_percentage |-> AdherencePercentage(taken_doses, total_doses),
          current_streak |-> streaks.current_streak,
          best_streak |-> streaks.best_streak,
          period_start |-> period_start,
          period_end |-> today ]

\* the logs of all the user's medicines, then their statistics
AdherenceStatsResponse(user, days, today) ==
    StatsOfLogs(AllLogsOf(GetMedicines(FALSE, user, today)), days, today)

\* GET /medicines/adherence-stats?days=...
GetAdherenceStats(user, days) ==
    /\ http' = "ok"
    /\ stats' = [user |-> user, body |-> AdherenceStatsResponse(user, days, Day(now))]
    /\ schedule' = NoSchedule
    /\ UNCHANGED <<engine_vars, clock_vars, helper_vars, store_vars>>

\* ---- the adherence statistics of a running deployment ------------------------
\* The store holds one prescription of u1 with two medicines; it is 20:00 on
\* the server, whose local zone is UTC or eight hours behind it.
UtcAheadHours == {0, 8}
AdherenceDays == {0, 1}

InitAdherence ==
    /\ client = FALSE
    /\ pc = "idle"
    /\ call = NoCall
    /\ classifier_calls = 0
    /\ reply = NoReply
    /\ outcome = "none"
    /\ verdict = NoVerdict
    /\ response = NoResponse
    /\ now = 20
    /\ utc_ahead \in UtcAheadHours
    /\ prescriptions = <<[id |-> 1, user_id |-> "u1"]>>
    /\ medicines = << [id |-> 1, prescription_id |-> 1, name |-> "Aspirin", timing |-> <<>>],
                      [id |-> 2, prescription_id |-> 1, name |-> "Warfarin", timing |-> <<>>] >>
    /\ medicine_logs = <<>>
    /\ next_id = [prescriptions |-> 2, medicines |-> 3, medicine_logs |-> 1]
    /\ http = "none"
    /\ schedule = NoSchedule
    /\ stats = NoStats
    /\ InitHelpers

NextAdherence ==
    \/ \E m \in {1, 2} : next_id.medicine_logs <= MaxDoses /\ MarkTaken(m, "u1")
    \/ \E m \in {1, 2} : next_id.medicine_logs <= MaxDoses /\ MarkMissed(m, "u1")
    \/ \E days \in AdherenceDays : GetAdherenceStats("u1", days)
    \/ Tick

SpecAdherence == InitAdherence /\ [][NextAdherence]_vars

\* ---- all the handlers of the core over one store -----------------------------
\* Two users have one prescription with one medicine each; medicine 3 does
\* not exist.  The interaction check is asked about one pair of medicines
\* and the classifier fails or answers DANGER.
CoreMedicineIds == {1, 2, 3}

MedicineUpdates == { [timing |-> <<"night">>], [x \in {} |-> None] }

CoreNewMeds == <<[name |-> "Warfarin", dosage |-> "5mg"]>>
CoreExistingMeds == <<[name |-> "Aspirin", dosage |-> "75mg"]>>

CoreReplies ==
    { [kind |-> "raise", content |-> <<>>],
      [kind |-> "content",
       content |-> <<Tok("json", JsonObject(WellFormedPayload("DANGER", TRUE)))>>] }

InitCore ==
    /\ client = TRUE
    /\ pc = "idle"
    /\ call = NoCall
    /\ classifier_calls = 0
    /\ reply = NoReply
    /\ outcome = "none"
    /\ verdict = NoVerdict
    /\ response = NoResponse
    /\ now = 9
    /\ utc_ahead = 0
    /\ prescriptions = <<[id |-> 1, user_id |-> "u1"], [id |-> 2, user_id |-> "u2"]>>
    /\ medicines = << [id |-> 1, prescription_id |-> 1, name |-> "Aspirin",
                       timing |-> <<"morning">>],
                      [id |-> 2, prescription_id |-> 2, name |-> "Warfarin",
                       timing |-> <<>>] >>
    /\ medicine_logs = <<>>
    /\ next_id = [prescriptions |-> 3, medicines |-> 3, medicine_logs |-> 1]
    /\ http = "none"
    /\ schedule = NoSchedule
    /\ stats = NoStats
    /\ InitHelpers

NextCore ==
    \/ \E m \in CoreMedicineIds, u \in Users :
            next_id.medicine_logs <= MaxCoreLogs /\ MarkTaken(m, u)
    \/ \E m \in CoreMedicineIds, u \in Users :
            next_id.medicine_logs <= MaxCoreLogs /\ MarkMissed(m, u)
    \/ \E m \in CoreMedicineIds, u \in Users, d \in MedicineUpdates : UpdateMedicine(m, u, d)
    \/ \E m \in CoreMedicineIds, u \in Users : DeleteMedicine(m, u)
    \/ \E u \in Users : GetTodaySchedule(u)
    \/ \E u \in Users : GetAdherenceStats(u, 1)
    \/ RouteCall(CoreNewMeds, CoreExistingMeds, FALSE)
    \/ \E r \in CoreReplies : ClassifierResponds(r)
    \/ EngineDone

SpecCore == InitCore /\ [][NextCore]_vars

\* ---- a store read from mock_data.json at start-up ---------------------------
\* _load_mock_storage returns whatever the file holds.  Here it holds one
\* prescription of u1 with one medicine, uploaded on day 0, and at most one
\* dose log; the log is as the schedule builder reads it, with the slot it
\* belongs to under "timing".
LogStatuses == {"taken", "missed", "skipped"}

LoadedLogs ==
    { [ id |-> 1, medicine_id |-> 1, scheduled_time |-> AtHour(d, 8),
        taken_at |-> IF st = "taken" THEN AtHour(d, 8) ELSE NoTime,
        status |-> st, created_at |-> AtHour(d, 8),
        timing |-> tok ] :
        d \in {0, 1}, st \in LogStatuses, tok \in {"morning", "night"} }

InitLoaded ==
    /\ client = FALSE
    /\ pc = "idle"
    /\ call = NoCall
    /\ classifier_calls = 0
    /\ reply = NoReply
    /\ outcome = "none"
    /\ verdict = NoVerdict
    /\ response = NoResponse
    /\ now = 9
    /\ utc_ahead = 0
    /\ prescriptions = <<[id |-> 1, user_id |-> "u1"]>>
    /\ \E p \in ParsedMedicines : medicines = <<MedicineRecord(1, 1, p, 0)>>
    /\ medicine_logs \in {<<>>} \cup { <<l>> : l \in LoadedLogs }
    /\ next_id = [prescriptions |-> 2, medicines |-> 2, medicine_logs |-> 2]
    /\ http = "none"
    /\ schedule = NoSchedule
    /\ stats = NoStats
    /\ InitHelpers

NextLoaded ==
    \/ \E u \in Users : GetTodaySchedule(u)
    \/ Tick

SpecLoaded == InitLoaded /\ [][NextLoaded]_vars

\* ======================================================================
\* utils/helpers.py: timing_to_hour and parse_frequency
\* ======================================================================
\* A text is the sequence of its characters.

\* ---- timing_to_hour ----------------------------------------------------------
timing_map ==
    [ morning |-> 8, before_breakfast |-> 7, after_breakfast |-> 9,
      afternoon |-> 13, before_lunch |-> 12, after_lunch |-> 14,
      evening |-> 18, before_dinner |-> 19, after_dinner |-> 21,
      night |-> 21, bedtime |-> 22 ]

\* a slip: the hour table of the schedule handler, which has no bedtime
timing_to_hour_HandlerTable(timing) == DictGet(timing_hours, Lower(timing), 8)

\* timing_map.get(timing.lower(), 8)
timing_to_hour(timing) == DictGet(timing_map, Lower(timing), 8)

\* the tokens the helper is called with: the table's own, other spellings of
\* them, and tokens the table does not have
TimingTokens ==
    DOMAIN timing_map
        \cup {"Morning", "AFTER_DINNER", "Evening", "NIGHT", "Bedtime"}
        \cup {"unknown_token", "noon", ""}

TimingToHour(timing) ==
    /\ timing_call' = [timing |-> timing, hour |-> timing_to_hour(timing)]
    /\ UNCHANGED <<engine_vars, clock_vars, store_vars, answer_vars, frequency_call>>

\* ---- parse_frequency ---------------------------------------------------------
\* "3 times daily"
Txt3TimesDaily ==
    <<"3", " ", "t", "i", "m", "e", "s", " ", "d", "a", "i", "l", "y">>
\* "twice daily"
TxtTwiceDaily ==
    <<"t", "w", "i", "c", "e", " ", "d", "a", "i", "l", "y">>
\* "prn"
TxtGibberish ==
    <<"p", "r", "n">>
\* "0 times daily"
Txt0TimesDaily ==
    <<"0", " ", "t", "i", "m", "e", "s", " ", "d", "a", "i", "l", "y">>
\* "2 times a day"
Txt2TimesADay ==
    <<"2", " ", "t", "i", "m", "e", "s", " ", "a", " ", "d", "a", "y">>
\* "4 x, 4 times per day"
Txt4TimesPerDay ==
    <<"4", " ", "x", ",", " ", "4", " ", "t", "i", "m", "e", "s", " ", "p", "e", "r", " ", "d", "a", "y">>
\* "1 time daily"
Txt1TimeDaily ==
    <<"1", " ", "t", "i", "m", "e", " ", "d", "a", "i", "l", "y">>
\* "12times daily"
Txt12TimesDaily ==
    <<"1", "2", "t", "i", "m", "e", "s", " ", "d", "a", "i", "l", "y">>
\* "3 TIMES Daily"
TxtUpper3TimesDaily ==
    <<"3", " ", "T", "I", "M", "E", "S", " ", "D", "a", "i", "l", "y">>
\* "twice daily, 3 times daily"
TxtTwiceThen3Times ==
    <<"t", "w", "i", "c", "e", " ", "d", "a", "i", "l", "y", ",", " ", "3", " ", "t", "i", "m", "e", "s", " ", "d", "a", "i", "l", "y">>
\* "every 8 hours"
TxtEvery8Hours ==
    <<"e", "v", "e", "r", "y", " ", "8", " ", "h", "o", "u", "r", "s">>
\* "every 12 hours, once daily"
TxtEvery12ThenOnce ==
    <<"e", "v", "e", "r", "y", " ", "1", "2", " ", "h", "o", "u", "r", "s", ",", " ", "o", "n", "c", "e", " ", "d", "a", "i", "l", "y">>
\* "three times daily"
TxtThreeTimesDaily ==
    <<"t", "h", "r", "e", "e", " ", "t", "i", "m", "e", "s", " ", "d", "a", "i", "l", "y">>
\* "30 times daily"
Txt30TimesDaily ==
    <<"3", "0", " ", "t", "i", "m", "e", "s", " ", "d", "a", "i", "l", "y">>
\* ""
TxtEmpty ==
    <<>>
\* "3 times"
Txt3Times ==
    <<"3", " ", "t", "i", "m", "e", "s">>
\* "Thrice daily"
TxtThriceDaily ==
    <<"T", "h", "r", "i", "c", "e", " ", "d", "a", "i", "l", "y">>
\* "four times"
TxtFourTimes ==
    <<"f", "o", "u", "r", " ", "t", "i", "m", "e", "s">>
\* "every 4 hours"
TxtEvery4Hours ==
    <<"e", "v", "e", "r", "y", " ", "4", " ", "h", "o", "u", "r", "s">>
\* "every 6 hours"
TxtEvery6Hours ==
    <<"e", "v", "e", "r", "y", " ", "6", " ", "h", "o", "u", "r", "s">>
FrequencyTexts ==
    { Txt3TimesDaily,
      TxtTwiceDaily,
      TxtGibberish,
      Txt0TimesDaily,
      Txt2TimesADay,
      Txt4TimesPerDay,
      Txt1TimeDaily,
      Txt12TimesDaily,
      TxtUpper3TimesDaily,
      TxtTwiceThen3Times,
      TxtEvery8Hours,
      TxtEvery12ThenOnce,
      TxtThreeTimesDaily,
      Txt30TimesDaily,
      TxtEmpty,
      Txt3Times,
      TxtThriceDaily,
      TxtFourTimes,
      TxtEvery4Hours,
      TxtEvery6Hours }

\* str.lower(), character by character
LowerChar(c) ==
    CASE c = "T" -> "t" [] c = "I" -> "i" [] c = "M" -> "m" [] c = "E" -> "e"
      [] c = "S" -> "s" [] c = "D" -> "d" [] OTHER -> c

LowerText(text) == [i \in DOMAIN text |-> LowerChar(text[i])]

Digits == <<"0", "1", "2", "3", "4", "5", "6", "7", "8", "9">>

IsDigit(c) == \E d \in DOMAIN Digits : Digits[d] = c

IsSpace(c) == c = " "

\* text[i:].startswith(literal)
StartsWith(text, i, literal) ==
    /\ i + Len(literal) - 1 <= Len(text)
    /\ \A k \in DOMAIN literal : text[i + k - 1] = literal[k]

\* pattern in text
In(pattern, text) == \E i \in 1..(Len(text) + 1) : StartsWith(text, i, pattern)

\* the position after the longest run of digits (\d+, or \d* ) from i on
RECURSIVE DigitsEnd(_, _)
DigitsEnd(text, i) ==
    IF i <= Len(text) /\ IsDigit(text[i]) THEN DigitsEnd(text, i + 1) ELSE i

\* the position after the longest run of white space (\s*) from i on
RECURSIVE SpacesEnd(_, _)
SpacesEnd(text, i) ==
    IF i <= Len(text) /\ IsSpace(text[i]) THEN SpacesEnd(text, i + 1) ELSE i

DayWords ==
    { <<"d", "a", "i", "l", "y">>,
      <<"a", " ", "d", "a", "y">>,
      <<"p", "e", "r", " ", "d", "a", "y">> }

\* (\d+)\s*times?\s*(daily|a day|per day) matches from position i on.  No
\* piece can give characters back to the next one, so each takes its longest
\* run.
MatchesAt(text, i) ==
    LET after_digits == DigitsEnd(text, i)
        at_time == SpacesEnd(text, after_digits)
        after_time == at_time + 4
        after_s == IF after_time <= Len(text) /\ text[after_time] = "s"
                   THEN after_time + 1 ELSE after_time
        at_day == SpacesEnd(text, after_s)
    IN  /\ after_digits > i
        /\ StartsWith(text, at_time, <<"t", "i", "m", "e">>)
        /\ \E w \in DayWords : StartsWith(text, at_day, w)

\* re.search: the leftmost position with a match, 0 for no match
TimesMatch(text) ==
    IF \E i \in DOMAIN text : MatchesAt(text, i)
    THEN CHOOSE i \in DOMAIN text :
            MatchesAt(text, i) /\ \A j \in 1..(i - 1) : ~MatchesAt(text, j)
    ELSE 0

\* int() of a run of digits
RECURSIVE ToInt(_)
ToInt(digits) ==
    IF digits = <<>> THEN 0
    ELSE 10 * ToInt(SubSeq(digits, 1, Len(digits) - 1))
            + (CHOOSE d \in DOMAIN Digits : Digits[d] = digits[Len(digits)]) - 1

\* the phrase table, in the order of the dict literal
patterns ==
    << [ pattern |-> <<"o", "n", "c", "e", " ", "d", "a", "i", "l", "y">>,
         data |-> [times_per_day |-> 1, interval_hours |-> 24] ],
       [ pattern |-> <<"t", "w", "i", "c", "e", " ", "d", "a", "i", "l", "y">>,
         data |-> [times_per_day |-> 2, interval_hours |-> 12] ],
       [ pattern |-> <<"t", "h", "r", "i", "c", "e", " ", "d", "a", "i", "l", "y">>,
         data |-> [times_per_day |-> 3, interval_hours |-> 8] ],
       [ pattern |-> <<"t", "h", "r", "e", "e", " ", "t", "i", "m", "e", "s">>,
         data |-> [times_per_day |-> 3, interval_hours |-> 8] ],
       [ pattern |-> <<"f", "o", "u", "r", " ", "t", "i", "m", "e", "s">>,
         data |-> [times_per_day |-> 4, interval_hours |-> 6] ],
       [ pattern |-> <<"e", "v", "e", "r", "y", " ", "4", " ", "h", "o", "u", "r", "s">>,
         data |-> [times_per_day |-> 6, interval_hours |-> 4] ],
       [ pattern |-> <<"e", "v", "e", "r", "y", " ", "6", " ", "h", "o", "u", "r", "s">>,
         data |-> [times_per_day |-> 4, interval_hours |-> 6] ],
       [ pattern |-> <<"e", "v", "e", "r", "y", " ", "8", " ", "h", "o", "u", "r", "s">>,
         data |-> [times_per_day |-> 3, interval_hours |-> 8] ],
       [ pattern |-> <<"e", "v", "e", "r", "y", " ", "1", "2", " ", "h", "o", "u", "r", "s">>,
         data |-> [times_per_day |-> 2, interval_hours |-> 12] ] >>

\* for pattern, data in patterns.items(): if pattern in frequency_lower
RECURSIVE FirstPattern(_, _)
FirstPattern(table, text) ==
    IF table = <<>> THEN [times_per_day |-> 1, interval_hours |-> 24]
    ELSE IF In(Head(table).pattern, text) THEN Head(table).data
         ELSE FirstPattern(Tail(table), text)

\* a slip: the phrase table is consulted before the "<N> times" pattern
parse_frequency_PhrasesFirst(frequency) ==
    LET frequency_lower == LowerText(frequency)
        at == TimesMatch(frequency_lower)
        n == ToInt(SubSeq(frequency_lower, at, DigitsEnd(frequency_lower, at) - 1))
        phrase == FirstPattern(patterns, frequency_lower)
    IN  IF phrase # [times_per_day |-> 1, interval_hours |-> 24] \/ at = 0
        THEN [outcome |-> "returned", value |-> phrase]
        ELSE IF n = 0
             THEN [outcome |-> "raised", value |-> [error |-> "ZeroDivisionError"]]
             ELSE [outcome |-> "returned",
                   value |-> [times_per_day |-> n, interval_hours |-> 24 \div n]]

\* parse_frequency: how the call ends, and the dict it returns.  24 // 0
\* raises ZeroDivisionError.
parse_frequency(frequency) ==
    LET frequency_lower == LowerText(frequency)
        at == TimesMatch(frequency_lower)
        n == ToInt(SubSeq(frequency_lower, at, DigitsEnd(frequency_lower, at) - 1))
    IN  IF at # 0
        THEN IF n = 0
             THEN [outcome |-> "raised", value |-> [error |-> "ZeroDivisionError"]]
             ELSE [outcome |-> "returned",
                   value |-> [times_per_day |-> n, interval_hours |-> 24 \div n]]
        ELSE [outcome |-> "returned", value |-> FirstPattern(patterns, frequency_lower)]

ParseFrequency(frequency) ==
    /\ frequency_call' = [frequency |-> frequency] @@ parse_frequency(frequency)
    /\ UNCHANGED <<engine_vars, clock_vars, store_vars, answer_vars, timing_call>>

NextHelpers ==
    \/ \E t \in TimingTokens : TimingToHour(t)
    \/ \E f \in FrequencyTexts : ParseFrequency(f)

SpecHelpers == Init /\ [][NextHelpers]_vars

\* ======================================================================
\* Properties of the day schedule (under Spec)
\* ======================================================================
\* The schedule answer is that of the last request: every other request
\* clears it, so it was built from the store as it is now.

ScheduleAnswered == schedule # NoSchedule

Items == schedule.body.schedule

\* the medicines of the user who asked, active or not
AskersMedicines ==
    { medicines[i] : i \in { j \in DOMAIN medicines :
        \E k \in DOMAIN prescriptions :
            /\ prescriptions[k].id = medicines[j].prescription_id
            /\ prescriptions[k].user_id = schedule.user } }

\* active on the day of the answer: no end date, or the day is not past it
ActiveThatDay(m) == "end_date" \notin DOMAIN m \/ schedule.body.date <= m.end_date

\* the timing list a medicine is scheduled by: its own, or ["morning"]
EffectiveTimings(m) ==
    IF "timing" \notin DOMAIN m \/ Len(m.timing) = 0 THEN <<"morning">> ELSE m.timing

ItemsFor(mid, token) ==
    { i \in DOMAIN Items : Items[i].medicine_id = mid /\ Items[i].timing = token }

Occurrences(list, token) == { i \in DOMAIN list : list[i] = token }

StatsAnswered == stats # NoStats

StatsBody == stats.body

\* the logs (by position in the table) of the medicines of the user who asked
AskersLogs ==
    { i \in DOMAIN medicine_logs :
        \E j \in DOMAIN medicines : \E k \in DOMAIN prescriptions :
            /\ medicines[j].id = medicine_logs[i].medicine_id
            /\ prescriptions[k].id = medicines[j].prescription_id
            /\ prescriptions[k].user_id = stats.user }

\* those created inside the window, both ends included
InWindow ==
    { i \in AskersLogs :
        /\ StatsBody.period_start <= Day(medicine_logs[i].created_at)
        /\ Day(medicine_logs[i].created_at) <= StatsBody.period_end }

WithStatus(logs, status) == { i \in logs : medicine_logs[i].status = status }

\* C14: the statistics count exactly the logs whose creation date d has
\* window_start <= d <= window_end; a log created before window_start or
\* after window_end adds to none of total, taken, missed, skipped or the
\* streaks.
C14_CountsOnlyLogsInWindow ==
    StatsAnswered =>
        /\ StatsBody.total_doses = Cardinality(InWindow)
        /\ StatsBody.taken_doses = Cardinality(WithStatus(InWindow, "taken"))
        /\ StatsBody.missed_doses = Cardinality(WithStatus(InWindow, "missed"))
        /\ StatsBody.skipped_doses = Cardinality(WithStatus(InWindow, "skipped"))
        /\ StatsBody.best_streak <= Cardinality(WithStatus(InWindow, "taken"))
        /\ StatsBody.current_streak <= Cardinality(WithStatus(InWindow, "taken"))

\* C15 as stated: adherence_percentage is 100 when the filtered log set is
\* empty and otherwise exactly taken / total * 100, and it lies between 0
\* and 100.  (Percentages are in tenths.)
C15_ExactPercentage ==
    StatsAnswered =>
        /\ StatsBody.total_doses = 0 => StatsBody.adherence_percentage = 1000
        /\ StatsBody.total_doses > 0 =>
                StatsBody.adherence_percentage * StatsBody.total_doses
                    = StatsBody.taken_doses * 1000
        /\ StatsBody.adherence_percentage \in 0..1000

Abs(x) == IF x < 0 THEN -x ELSE x

\* C15 amended: adherence_percentage is 100 when the filtered log set is
\* empty and otherwise taken / total * 100 rounded to one decimal place
\* (the nearest tenth), and it lies between 0 and 100.
C15_RoundedPercentage ==
    StatsAnswered =>
        /\ StatsBody.total_doses = 0 => StatsBody.adherence_percentage = 1000
        /\ StatsBody.total_doses > 0 =>
                2 * Abs(StatsBody.adherence_percentage * StatsBody.total_doses
                            - StatsBody.taken_doses * 1000)
                    <= StatsBody.total_doses
        /\ StatsBody.adherence_percentage \in 0..1000

\* one dose taken out of three: 33.3
C15_Witness ==
    /\ StatsAnswered
    /\ StatsBody.total_doses = 3
    /\ StatsBody.taken_doses = 1
    /\ StatsBody.adherence_percentage = 333

\* the logs the statistics went over: those of the asker's medicines created
\* on or after period_start
Counted == { i \in AskersLogs : StatsBody.period_start <= Day(medicine_logs[i].created_at) }

\* position of a log's medicine in the medicines table
MedicinePosition(i) ==
    CHOOSE j \in DOMAIN medicines : medicines[j].id = medicine_logs[i].medicine_id

\* ascending creation order; logs created at the same instant in the order
\* they were collected (medicine by medicine, then by position in the table)
CreatedBefore(i, j) ==
    \/ medicine_logs[i].created_at < medicine_logs[j].created_at
    \/ /\ medicine_logs[i].created_at = medicine_logs[j].created_at
       /\ \/ MedicinePosition(i) < MedicinePosition(j)
          \/ MedicinePosition(i) = MedicinePosition(j) /\ i < j

\* the statuses of the counted logs, in that order
StatusesInOrder ==
    LET counted == Counted
    IN  [ k \in 1..Cardinality(counted) |->
            medicine_logs[CHOOSE i \in counted :
                Cardinality({ j \in counted : CreatedBefore(j, i) }) = k - 1].status ]

TakenRun(statuses, a, b) == \A k \in a..b : statuses[k] = "taken"

HasTakenRun(statuses, n) ==
    \/ n = 0
    \/ \E a \in 1..(Len(statuses) - n + 1) : TakenRun(statuses, a, a + n - 1)

\* C16: over the filtered logs in ascending creation order, best_streak is
\* the length of the longest run of consecutive TAKEN entries and
\* current_streak the length of the run of TAKEN entries that ends at the
\* last entry (0 if the last entry is not TAKEN or there is none).
C16_Streaks ==
    StatsAnswered =>
        LET statuses == StatusesInOrder
            n == Len(statuses)
            best == StatsBody.best_streak
            current == StatsBody.current_streak
        IN  /\ best \in 0..n
            /\ HasTakenRun(statuses, best)
            /\ ~HasTakenRun(statuses, best + 1)
            /\ current \in 0..n
            /\ TakenRun(statuses, n - current + 1, n)
            /\ current < n => statuses[n - current] # "taken"

\* [TAKEN, TAKEN, MISSED, TAKEN], a log of the second medicine created
\* before one of the first: best_streak 2, current_streak 1
C16_Witness ==
    /\ StatsAnswered
    /\ StatusesInOrder = <<"taken", "taken", "missed", "taken">>
    /\ \E i \in Counted : \E j \in Counted :
            /\ medicine_logs[i].medicine_id = 2
            /\ medicine_logs[j].medicine_id = 1
            /\ medicine_logs[i].created_at < medicine_logs[j].created_at
    /\ StatsBody.best_streak = 2
    /\ StatsBody.current_streak = 1

\* ======================================================================
\* Properties of the record store (under SpecStore)
\* ======================================================================

\* C17: after any sequence of create, mark-taken, mark-missed,
\* delete-medicine and delete-prescription operations every medicine log
\* in the store references a medicine that still exists.
C17_NoOrphanLogs ==
    \A i \in DOMAIN medicine_logs :
        \E j \in DOMAIN medicines : medicines[j].id = medicine_logs[i].medicine_id

\* ======================================================================
\* Properties of the helpers (under SpecHelpers)
\* ======================================================================

TimingCalled == timing_call # NoHelperCall

FrequencyCalled == frequency_call # NoHelperCall

\* the hour of each token of the table, with the spellings it is called by
HourTable ==
    { <<{"morning", "Morning"}, 8>>,
      <<{"before_breakfast"}, 7>>,
      <<{"after_breakfast"}, 9>>,
      <<{"afternoon"}, 13>>,
      <<{"before_lunch"}, 12>>,
      <<{"after_lunch"}, 14>>,
      <<{"evening", "Evening"}, 18>>,
      <<{"before_dinner"}, 19>>,
      <<{"after_dinner", "AFTER_DINNER"}, 21>>,
      <<{"night", "NIGHT"}, 21>>,
      <<{"bedtime", "Bedtime"}, 22>> }

\* C18: timing_to_hour maps each token, compared case-insensitively, to its
\* table hour (morning 8, before_breakfast 7, after_breakfast 9, afternoon
\* 13, before_lunch 12, after_lunch 14, evening 18, before_dinner 19,
\* after_dinner 21, night 21, bedtime 22) and every other token to 8; the
\* result is always in 0..23.
C18_TimingToHourTable ==
    TimingCalled =>
        /\ \A e \in HourTable : timing_call.timing \in e[1] => timing_call.hour = e[2]
        /\ (\A e \in HourTable : timing_call.timing \notin e[1]) => timing_call.hour = 8
        /\ timing_call.hour \in 0..23

\* hour_for("Bedtime") = 22, a token and a spelling the schedule handler's
\* own table does not resolve
C18_Witness ==
    /\ TimingCalled
    /\ timing_call.timing = "Bedtime"
    /\ timing_call.hour = 22

\* C19: parse_frequency raises no error for any input text, the "<N> times
\* daily" pattern with N = 0 included: it always returns a
\* {times_per_day, interval_hours} pair.
C19_ParseFrequencyNeverRaises ==
    FrequencyCalled =>
        /\ frequency_call.outcome = "returned"
        /\ DOMAIN frequency_call.value = {"times_per_day", "interval_hours"}

\* what each text is to the three rules: the N of its "<N> times daily|a
\* day|per day" part, if it has one
CountOf ==
    { <<Txt3TimesDaily, 3>>, <<Txt0TimesDaily, 0>>, <<Txt2TimesADay, 2>>,
      <<Txt4TimesPerDay, 4>>, <<Txt1TimeDaily, 1>>, <<Txt12TimesDaily, 12>>,
      <<TxtUpper3TimesDaily, 3>>, <<TxtTwiceThen3Times, 3>>, <<Txt30TimesDaily, 30>> }

\* and otherwise the pair of the first phrase-table entry it contains, if any
PhraseOf ==
    { <<TxtTwiceDaily, 2, 12>>, <<TxtEvery8Hours, 3, 8>>, <<TxtEvery12ThenOnce, 1, 24>>,
      <<TxtThreeTimesDaily, 3, 8>>, <<TxtThriceDaily, 3, 8>>, <<TxtFourTimes, 4, 6>>,
      <<TxtEvery4Hours, 6, 4>>, <<TxtEvery6Hours, 4, 6>> }

Pair(times, hours) == [times_per_day |-> times, interval_hours |-> hours]

\* C20: parse_frequency applies its rules in priority order: a text with an
\* "<N> times daily|a day|per day" part gives {N, 24 div N} (N >= 1; for
\* N = 0 there is no such pair) even when a phrase-table entry also occurs
\* in it; otherwise the first matching phrase-table entry's pair; otherwise
\* {1, 24}.
C20_RulesInPriorityOrder ==
    FrequencyCalled =>
        /\ \A c \in CountOf :
                (frequency_call.frequency = c[1] /\ c[2] >= 1)
                    => /\ frequency_call.outcome = "returned"
                       /\ frequency_call.value = Pair(c[2], 24 \div c[2])
        /\ \A ph \in PhraseOf :
                frequency_call.frequency = ph[1]
                    => /\ frequency_call.outcome = "returned"
                       /\ frequency_call.value = Pair(ph[2], ph[3])
        /\ ( /\ \A c \in CountOf : frequency_call.frequency # c[1]
             /\ \A ph \in PhraseOf : frequency_call.frequency # ph[1] )
                => /\ frequency_call.outcome = "returned"
                   /\ frequency_call.value = Pair(1, 24)

\* "twice daily, 3 times daily": the count wins over the phrase
C20_Witness ==
    /\ FrequencyCalled
    /\ frequency_call.frequency = TxtTwiceThen3Times
    /\ frequency_call.value = Pair(3, 8)

\* ======================================================================
\* More properties of the day schedule
\* ======================================================================

\* items of one medicine that share a scheduled_time keep the order of the
\* medicine's timing list
TiesInLoopOrder ==
    ScheduleAnswered =>
        \A i \in DOMAIN Items : \A j \in DOMAIN Items :
            ( /\ i < j
              /\ Items[i].medicine_id = Items[j].medicine_id
              /\ Items[i].scheduled_time = Items[j].scheduled_time )
            => \E m \in AskersMedicines :
                    /\ m.id = Items[i].medicine_id
                    /\ \E a \in DOMAIN EffectiveTimings(m) : \E b \in DOMAIN EffectiveTimings(m) :
                            /\ a < b
                            /\ EffectiveTimings(m)[a] = Items[i].timing
                            /\ EffectiveTimings(m)[b] = Items[j].timing

\* the schedule is asked for again by the same user at the same instant, the
\* store as it was
SameBuildAgain ==
    /\ schedule # NoSchedule
    /\ schedule' # NoSchedule
    /\ schedule'.user = schedule.user
    /\ schedule'.at = schedule.at
    /\ UNCHANGED <<prescriptions, medicines, medicine_logs>>

RouteAnswered == response # NoResponse

AnsweredLevel == DictGet(response.safety_check, "safety_level", None)

\* C24: in every response of the drug-interaction check endpoint whose
\* safety_check has safety_level DANGER or CRITICAL,
\* requires_immediate_action is true; for a verdict produced by the engine
\* with safety_level SAFE or CAUTION it is false.
C24_ImmediateActionFollowsLevel ==
    RouteAnswered =>
        /\ AnsweredLevel \in {"DANGER", "CRITICAL"}
                => response.requires_immediate_action = TRUE
        /\ (response.success /\ AnsweredLevel \in {"SAFE", "CAUTION"})
                => response.requires_immediate_action = FALSE

\* the classifier's own DANGER verdict, passed on by the endpoint
C24_Witness ==
    /\ RouteAnswered
    /\ ClassifierPayloadParsed
    /\ AnsweredLevel = "DANGER"
    /\ response.requires_immediate_action = TRUE

\* ======================================================================
\* More properties of the record store (under SpecStore)
\* ======================================================================

\* C25: in every reachable state of the log store a MedicineLog has a
\* non-null taken_at if and only if its status is TAKEN.
C25_TakenAtIffTaken ==
    \A i \in DOMAIN medicine_logs :
        (medicine_logs[i].taken_at # NoTime) <=> (medicine_logs[i].status = "taken")

\* a missed dose, written by mark-missed with taken_at null
C25_Witness ==
    \E i \in DOMAIN medicine_logs :
        /\ medicine_logs[i].status = "missed"
        /\ medicine_logs[i].taken_at = NoTime

\* ======================================================================
\* More properties of the adherence statistics (under SpecAdherence)
\* ======================================================================

\* two logs of the same medicine for the same dose, both TAKEN
SameDoseTwice(i, j) ==
    /\ i # j
    /\ medicine_logs[i].medicine_id = medicine_logs[j].medicine_id
    /\ medicine_logs[i].scheduled_time = medicine_logs[j].scheduled_time
    /\ medicine_logs[i].status = "taken"
    /\ medicine_logs[j].status = "taken"

\* C26: dose logs are not de-duplicated: two mark-taken calls for the same
\* medicine and the same dose leave two distinct MedicineLog entries, and
\* the statistics count every entry: total_doses and taken_doses are
\* numbers of entries, and when every counted entry is TAKEN both streaks
\* are that number too.
C26_NoDeduplication ==
    /\ \A i \in DOMAIN medicine_logs : \A j \in DOMAIN medicine_logs :
            i # j => medicine_logs[i].id # medicine_logs[j].id
    /\ StatsAnswered =>
            LET counted == Counted
                taken == WithStatus(counted, "taken")
            IN  /\ StatsBody.total_doses = Cardinality(counted)
                /\ StatsBody.taken_doses = Cardinality(taken)
                /\ taken = counted =>
                        /\ StatsBody.current_streak = Cardinality(counted)
                        /\ StatsBody.best_streak = Cardinality(counted)

\* the same dose marked taken twice, then the statistics: 2, 2, 2, 2
C26_Witness ==
    /\ StatsAnswered
    /\ Len(medicine_logs) = 2
    /\ SameDoseTwice(1, 2)
    /\ medicine_logs[1].id # medicine_logs[2].id
    /\ StatsBody.total_doses = 2
    /\ StatsBody.taken_doses = 2
    /\ StatsBody.current_streak = 2
    /\ StatsBody.best_streak = 2

\* C30: in every adherence statistics result over a log store built by
\* mark-taken and mark-missed, total_doses = taken_doses + missed_doses +
\* skipped_doses and current_streak <= best_streak <= taken_doses.
C30_CountsAndStreaksAgree ==
    StatsAnswered =>
        /\ StatsBody.total_doses
                = StatsBody.taken_doses + StatsBody.missed_doses + StatsBody.skipped_doses
        /\ StatsBody.current_streak <= StatsBody.best_streak
        /\ StatsBody.best_streak <= StatsBody.taken_doses

\* statistics over taken and missed doses with a running streak
C30_Witness ==
    /\ StatsAnswered
    /\ StatsBody.taken_doses = 2
    /\ StatsBody.missed_doses = 1
    /\ StatsBody.total_doses = 3
    /\ StatsBody.current_streak = 1
    /\ StatsBody.best_streak = 1

\* the logs were created at strictly increasing times, all inside the
\* window of the last d days seen from the server's today
IncreasingInWindow(logs, d) ==
    /\ \A i \in DOMAIN logs : \A j \in DOMAIN logs :
            i < j => logs[i].created_at < logs[j].created_at
    /\ \A i \in DOMAIN logs :
            /\ Day(now) - d <= Day(logs[i].created_at)
            /\ Day(logs[i].created_at) <= Day(now)

\* a step that appended one log with the given status
Marked(status) ==
    /\ Len(medicine_logs') = Len(medicine_logs) + 1
    /\ medicine_logs'[Len(medicine_logs')].status = status

\* the logs the statistics collect for u1 in this state
CollectedNow == AllLogsOf(GetMedicines(FALSE, "u1", Day(now)))

\* the statistics over a window of d days before and after the step
MarkMovesStreaks(d) ==
    LET collected == CollectedNow
        collected_next == CollectedNow'
        before == StatsOfLogs(collected, d, Day(now))
        after == StatsOfLogs(collected_next, d, Day(now'))
    IN  /\ Marked("taken") =>
                /\ after.current_streak = before.current_streak + 1
                /\ after.best_streak >= before.best_streak
        /\ Marked("missed") =>
                /\ after.current_streak = 0
                /\ after.best_streak = before.best_streak

\* C28: for logs created at strictly increasing creation times inside the
\* statistics window, a mark-taken raises the current_streak of the next
\* statistics by exactly 1 and never lowers best_streak, and a mark-missed
\* makes current_streak 0 and leaves best_streak unchanged.
C28_MarksMoveStreaks ==
    [][\A d \in AdherenceDays :
            (/\ Len(medicine_logs') = Len(medicine_logs) + 1
             /\ IncreasingInWindow(medicine_logs', d))
                => MarkMovesStreaks(d)]_vars

\* a dose taken one day and a dose missed the next, then the statistics
\* of the last two days: the running streak is gone, the best streak stays 1
C28_Witness ==
    /\ StatsAnswered
    /\ Len(medicine_logs) = 2
    /\ IncreasingInWindow(medicine_logs, 1)
    /\ medicine_logs[1].status = "taken"
    /\ medicine_logs[2].status = "missed"
    /\ StatsBody.period_start = Day(now) - 1
    /\ StatsBody.total_doses = 2
    /\ StatsBody.current_streak = 0
    /\ StatsBody.best_streak = 1

\* ======================================================================
\* Properties of the handlers taken together (under SpecCore)
\* ======================================================================

\* a step of one of the three read-only operations
ScheduleBuilt == \E u \in Users : GetTodaySchedule(u)
StatsComputed == \E u \in Users : GetAdherenceStats(u, 1)
InteractionChecked ==
    \/ RouteCall(CoreNewMeds, CoreExistingMeds, FALSE)
    \/ \E r \in CoreReplies : ClassifierResponds(r)

\* every log that is still there after the step is as it was before
LogsKeptAsWritten ==
    \A i \in DOMAIN medicine_logs : \A j \in DOMAIN medicine_logs' :
        medicine_logs'[j].id = medicine_logs[i].id
            => medicine_logs'[j] = medicine_logs[i]

\* C27: building the today-schedule, computing adherence statistics and
\* running a drug-interaction check leave the Medicine store and the
\* MedicineLog store unchanged, and no operation changes a MedicineLog
\* entry after it is created: logs are only appended or deleted.
C27_ReadsLeaveStoresAlone ==
    [][/\ (ScheduleBuilt \/ StatsComputed \/ InteractionChecked)
            => UNCHANGED <<medicines, medicine_logs>>
       /\ LogsKeptAsWritten]_vars

\* a log is in the store, the schedule was just built from it and an
\* interaction check has answered
C27_Witness ==
    /\ Len(medicine_logs) >= 1
    /\ schedule # NoSchedule
    /\ response # NoResponse

\* the id names no medicine
NoSuchMedicine(m) == \A i \in DOMAIN medicines : medicines[i].id # m

\* the medicine is of a prescription that belongs to another user
OthersMedicine(m, u) ==
    \E i \in DOMAIN medicines : \E k \in DOMAIN prescriptions :
        /\ medicines[i].id = m
        /\ prescriptions[k].id = medicines[i].prescription_id
        /\ prescriptions[k].user_id # u

\* one of the four /{medicine_id} handlers that write, called by u for m
WritingHandler(m, u) ==
    \/ MarkTaken(m, u)
    \/ MarkMissed(m, u)
    \/ \E d \in MedicineUpdates : UpdateMedicine(m, u, d)
    \/ DeleteMedicine(m, u)

\* C29: mark-taken, mark-missed, update-medicine and delete-medicine on a
\* medicine id that does not exist end in not found (404), on a medicine
\* whose prescription belongs to another user in not authorized (403), and
\* either way leave the Medicine store and the MedicineLog store unchanged.
C29_RejectedCallsChangeNothing ==
    [][\A m \in CoreMedicineIds : \A u \in Users :
            /\ (NoSuchMedicine(m) /\ WritingHandler(m, u))
                    => (http' = "404" /\ UNCHANGED <<medicines, medicine_logs>>)
            /\ (OthersMedicine(m, u) /\ WritingHandler(m, u))
                    => (http' = "403" /\ UNCHANGED <<medicines, medicine_logs>>)]_vars

\* a call on another user's medicine was just turned down, with both
\* stores holding records
C29_Witness ==
    /\ http = "403"
    /\ Len(medicines) = 2
    /\ Len(medicine_logs) >= 1

====
